---------------------------- MODULE Spec2Model ----------------------------
(***************************************************************************)
(* Model of the turtle mission backend (backend/src/index.js): the ROS 2   *)
(* node initialisation, the /turtle1/pose subscription callback, the 100ms *)
(* mission interval and the socket.io handlers of io.on('connection');     *)
(* and of the client store (frontend/src/store.tsx) with the path routes.  *)
(* Spec runs the backend; SpecStore, SpecPersist and SpecMission run the   *)
(* client against the pose feed, the path routes and the stored documents; *)
(* SpecToast runs its notifications second by second; SpecFilter applies   *)
(* filterPathPoints to arrays of points; SpecSystem runs one client and    *)
(* the backend together, and SpecSystemFair adds what the boot, the armed  *)
(* intervals and the pose feed are bound to do.                            *)
(*                                                                         *)
(* Units.  Positions are integers in 1/100 world unit (10 = 0.1), angles   *)
(* are integers in milliradians (200 = 0.2 rad, 3142 = pi), linear         *)
(* velocity is in 1/100 unit per second (100 = 1.0) and angular velocity   *)
(* in mrad/s (1000 = 1.0).  Comparisons of a distance with 0.1 are made on *)
(* the squared distance, which is exact on the integer grid.               *)
(*                                                                         *)
(* Node runs every callback to completion on one event loop, so each       *)
(* handler, timer callback and subscription callback is one atomic action. *)
(***************************************************************************)
EXTENDS Integers, Sequences, FiniteSets

(***************************************************************************)
(* Bounds of the model.                                                    *)
(***************************************************************************)
MaxClients == 2     \* socket ids are 1..MaxClients
MaxTimers  == 2     \* interval handles are 1..MaxTimers
MaxLen     == 2     \* longest waypoint list a startMission payload carries

(***************************************************************************)
(* Inputs: the waypoints a payload may carry, and the poses the turtlesim  *)
(* pose feed may report.                                                   *)
(***************************************************************************)
Waypoints == { <<10, 0>>, <<110, 0>> }
Positions == { <<0, 0>>, <<4, 3>>, <<105, 0>> }
Thetas    == { 0, 200, -300, -3000 }
Poses     == { [x |-> p[1], y |-> p[2], theta |-> t] : p \in Positions, t \in Thetas }

\* The placeholder pose a new mission record holds (index.js:220).
Origin == [x |-> 0, y |-> 0, theta |-> 0]

PointLists == UNION { [1..n -> Waypoints] : n \in 0..MaxLen }

\* The velocity pairs the client's buttons send (Forward, Left, Stop).
ManualCmds == { <<100, 0>>, <<0, 1000>>, <<0, 0>> }

\* What a startMission payload can be: missing/null, an object whose points
\* is no array, or an object with an array of points (possibly empty).
StartPayloads == { [kind |-> "null", points |-> <<>>],
                   [kind |-> "notArray", points |-> <<>>] }
                 \cup { [kind |-> "array", points |-> ps] : ps \in PointLists }

\* What a turtleControl payload can be: missing/null, an object whose
\* linear/angular are not numbers, or a pair of numbers.
ControlPayloads == { [kind |-> "null", linear |-> 0, angular |-> 0],
                     [kind |-> "nonNumeric", linear |-> 0, angular |-> 0] }
                   \cup { [kind |-> "numeric", linear |-> c[1], angular |-> c[2]] : c \in ManualCmds }

VARIABLES
  rosPc,             \* "start" until initROS2() has run, then "done"
  isROSInitialized,  \* index.js:47
  turtleVelPub,      \* index.js:46, TRUE once the publisher exists
  currentMission,    \* index.js:48, <<>> for null, else <<[points, currentPose]>>
  missionInterval,   \* index.js:49, NoTimer for null, else a handle (possibly cleared)
  timers,            \* the interval handles that are armed in the event loop
  clients,           \* the connected sockets
  crashed,           \* an error escaped a callback: the process is gone
  lastOp,            \* the callback that ran last, its input kind, and the
                     \* number of remaining waypoints before it ran (-1: no mission)
  published,         \* the twists the last callback published on /turtle1/cmd_vel
  emitted            \* the events the last callback broadcast with io.emit

vars == << rosPc, isROSInitialized, turtleVelPub, currentMission, missionInterval,
           timers, clients, crashed, lastOp, published, emitted >>

NoMission == << >>
NoTimer   == 0
PiM       == 3142
TwoPiM    == 6283
ArrivalTolSq == 100     \* 0.1 squared, in (1/100 unit)^2
AngleTol  == 200        \* 0.2 rad
MaxLinear == 100        \* 1.0
MaxAngular == 1000      \* 1.0

Running == currentMission # NoMission
Mission == currentMission[1]

Abs(a)    == IF a < 0 THEN -a ELSE a
Min(a, b) == IF a < b THEN a ELSE b
Sign(a)   == IF a > 0 THEN 1 ELSE IF a < 0 THEN -1 ELSE 0

Twist(l, a) == [lin |-> l, ang |-> a]
ZeroTwist   == Twist(0, 0)

\* Math.sqrt, rounded down to 1/100 unit.
Sqrt(n) == CHOOSE r \in 0..200 : r * r <= n /\ (r + 1) * (r + 1) > n

DistSq(dx, dy) == dx * dx + dy * dy

\* Math.atan2(dy, dx) in milliradians, rounded to the nearest, on the
\* displacements between Positions and Waypoints.
Atan2(dy, dx) ==
  CASE dx > 0   /\ dy = 0  -> 0
    [] dx < 0   /\ dy = 0  -> PiM
    [] dx = 6   /\ dy = -3 -> -464
    [] dx = 106 /\ dy = -3 -> -28

\* normalizeAngle: atan2(sin a, cos a) wraps a into [-pi, pi].
normalizeAngle(angle) ==
  IF angle > PiM THEN angle - TwoPiM
  ELSE IF angle < -PiM THEN angle + TwoPiM
  ELSE angle

\* moveToPoint's angleDifference for a pose and a target point.
AngleDifference(pose, point) ==
  normalizeAngle(Atan2(point[2] - pose.y, point[1] - pose.x) - pose.theta)


\* An arrival test with the tolerance 1.0 instead of 0.1.
ArrivedWide(msg, point) ==
  DistSq(msg.x - point[1], msg.y - point[2]) < MaxLinear * MaxLinear

\* distance < 0.1 in the pose callback (index.js:80-85).
Arrived(msg, point) ==
  DistSq(msg.x - point[1], msg.y - point[2]) < ArrivalTolSq

\* clearInterval(h): the handle is disarmed; null or an already cleared
\* handle is a no-op.
ClearInterval(h) == timers \ {h}

\* setInterval returns a handle that is not armed; the least handle that is
\* neither armed nor still held in missionInterval stands for it.
FreeTimers == (1..MaxTimers) \ (timers \cup {missionInterval})
NewTimer   == CHOOSE t \in FreeTimers : \A u \in FreeTimers : t <= u

\* A stopTurtle() that backs the turtle off instead of halting it.
StopTurtleBackOff == IF turtleVelPub THEN << Twist(-MaxLinear, 0) >> ELSE << >>

\* A stopTurtle() that publishes nothing.
StopTurtleSilent == << >>

\* stopTurtle(): what it publishes.
StopTurtle == IF turtleVelPub THEN << ZeroTwist >> ELSE << >>

\* A moveToPoint that turns by the raw heading error, without the 1.0 cap.
MoveToPointRawTurn(point) ==
  IF ~isROSInitialized \/ ~turtleVelPub \/ ~Running THEN << >>
  ELSE LET pose == Mission.currentPose
           dx == point[1] - pose.x
           dy == point[2] - pose.y
           distance == Sqrt(DistSq(dx, dy))
           angleDifference == AngleDifference(pose, point)
           turn == angleDifference
       IN  IF Abs(angleDifference) > AngleTol
             THEN << Twist(0, turn) >>
           ELSE IF DistSq(dx, dy) > ArrivalTolSq
             THEN << Twist(Min(MaxLinear, distance), turn) >>
           ELSE << ZeroTwist >>

\* A moveToPoint that tests the distance before the heading, so that it
\* advances while misaligned.
MoveToPointAdvanceFirst(point) ==
  IF ~isROSInitialized \/ ~turtleVelPub \/ ~Running THEN << >>
  ELSE LET pose == Mission.currentPose
           dx == point[1] - pose.x
           dy == point[2] - pose.y
           distance == Sqrt(DistSq(dx, dy))
           angleDifference == AngleDifference(pose, point)
           turn == Sign(angleDifference) * Min(Abs(angleDifference), MaxAngular)
       IN  IF DistSq(dx, dy) > ArrivalTolSq
             THEN << Twist(Min(MaxLinear, distance), turn) >>
           ELSE IF Abs(angleDifference) > AngleTol
             THEN << Twist(0, turn) >>
           ELSE << ZeroTwist >>

\* A moveToPoint whose linear velocity is the distance, without the 1.0 cap.
MoveToPointUncapped(point) ==
  IF ~isROSInitialized \/ ~turtleVelPub \/ ~Running THEN << >>
  ELSE LET pose == Mission.currentPose
           dx == point[1] - pose.x
           dy == point[2] - pose.y
           distance == Sqrt(DistSq(dx, dy))
           angleDifference == AngleDifference(pose, point)
           turn == Sign(angleDifference) * Min(Abs(angleDifference), MaxAngular)
       IN  IF Abs(angleDifference) > AngleTol
             THEN << Twist(0, turn) >>
           ELSE IF DistSq(dx, dy) > ArrivalTolSq
             THEN << Twist(distance, turn) >>
           ELSE << ZeroTwist >>

\* moveToPoint(point): what it publishes.
MoveToPoint(point) ==
  IF ~isROSInitialized \/ ~turtleVelPub \/ ~Running THEN << >>
  ELSE LET pose == Mission.currentPose
           dx == point[1] - pose.x
           dy == point[2] - pose.y
           distance == Sqrt(DistSq(dx, dy))
           angleDifference == AngleDifference(pose, point)
           turn == Sign(angleDifference) * Min(Abs(angleDifference), MaxAngular)
       IN  IF Abs(angleDifference) > AngleTol
             THEN << Twist(0, turn) >>
           ELSE IF DistSq(dx, dy) > ArrivalTolSq
             THEN << Twist(Min(MaxLinear, distance), turn) >>
           ELSE << ZeroTwist >>

\* A stop that forgets clearInterval.
TimersAfterStopLeak == timers

\* The handle-clearing prologue shared by the stopMission and disconnect
\* handlers: if (missionInterval) { clearInterval(missionInterval); ... }.
TimersAfterStop ==
  IF missionInterval # NoTimer THEN ClearInterval(missionInterval) ELSE timers

\* Number of remaining waypoints, -1 when there is no mission.
Remaining == IF Running THEN Len(Mission.points) ELSE -1

Op(name, arg) == [op |-> name, arg |-> arg, n |-> Remaining]

(***************************************************************************)
(* The client store (frontend/src/store.tsx), the path routes it calls     *)
(* (backend/src/routes/pathRoutes.js) and the Path schema.  Points are     *)
(* triples <<x, y, z>> as the store keeps them; a nullable value is the    *)
(* empty tuple for null and a one-element tuple otherwise; a nullable      *)
(* text is the string "null" for null.  A station id is <<"start">>,       *)
(* <<"end">>, <<"station", n>> for `station-${n}` or <<"station", x, y>>   *)
(* for `station-${x}-${y}`; a path id is <<"local", n>> for the n-th path  *)
(* named in this page load and <<"db", n>> for the _id of the n-th stored  *)
(* document.  The fields startingStation, turtlePosition, turtleRotation,  *)
(* pendingDefaultName, loading, error, missionTargetIdx and a path's name   *)
(* are written but steer nothing below and are left out.                   *)
(***************************************************************************)
MaxPathLen  == 2    \* longest recording (currentPath)
MaxStations == 2    \* most stations on a recording before the end station
MaxPaths    == 1    \* most paths in the list, and most documents stored
MaxRecorded == 4    \* longest recording behind a document stored before the page load

MaxFilterLen == 4   \* longest array passed to filterPathPoints on its own

\* The points of those arrays: at 0.1, 0.2 and 0.1 from one another along
\* the x axis, and one at 0.2 from the first off the axis.
FilterPoints == { << 0, 0, 0 >>, << 10, 0, 0 >>, << 20, 0, 0 >>, << 12, 16, 0 >> }
FilterInputs == UNION { [1..n -> FilterPoints] : n \in 0..MaxFilterLen }

\* The poses the pose feed reports to the client; turtlesim's window is
\* 11 x 11 (Scene2D.tsx:36), so a pose can lie beyond 10.
StorePoses == { [x |-> 0,    y |-> 0,    theta |-> 0],
                [x |-> 10,   y |-> 0,    theta |-> 0],
                [x |-> 1100, y |-> 1050, theta |-> -300] }

VARIABLES
  turtlePose,        \* store.tsx:77
  currentPath,       \* store.tsx:104
  isMapping,         \* store.tsx:105
  stationsOnPath,    \* store.tsx:107
  pendingPath,       \* store.tsx:108, <<>> for null, else <<points>>
  paths,             \* store.tsx:103
  selectedPathId,    \* store.tsx:218, <<>> for null
  selectedStation,   \* store.tsx:219, <<>> for null
  isMissionRunning,  \* store.tsx:220
  missionPath,       \* store.tsx:221, <<>> for null, else <<points>>
  socket,            \* store.tsx:290, TRUE once initializeSocket created it
  connected,         \* store.tsx:291
  toast,             \* store.tsx:358
  toastTimeout,      \* store.tsx:73, NoTimer for null, else a timeout handle
  timeouts,          \* the armed timeouts <<handle, seconds left>> of the page
  toastAge,          \* the seconds since showToast was called last
  showNameModal,     \* store.tsx:359
  simPose,           \* the pose turtlesim holds and publishes on /turtle1/pose
  db,                \* the Path documents stored, oldest first
  posting,           \* the bodies of the POST /savePath requests in flight
  fetching,          \* a GET /paths request is in flight
  sent,              \* the socket messages the last step emitted
  replied            \* the HTTP reply the last step delivered: "" for none, else
                     \* "saved", "saveFailed", "listed" or "listFailed"

storeVars == << turtlePose, currentPath, isMapping, stationsOnPath, pendingPath,
                paths, selectedPathId, selectedStation, isMissionRunning,
                missionPath, socket, connected, toast, toastTimeout,
                timeouts, toastAge, showNameModal,
                simPose, db, posting, fetching, sent, replied >>

Null     == << >>
NoText   == "null"
ArenaMax == 1000      \* 10, in 1/100 unit
MinDistSq == 400      \* 0.2 squared

Max(a, b) == IF a > b THEN a ELSE b

MaxTimeouts == 2      \* timeout handles are 1..MaxTimeouts
ToastDelay  == 3      \* the 3000 ms of showToast's setTimeout, in seconds

\* The toast, the handle showToast keeps, the event loop's armed timeouts
\* and the age of the toast.
toastVars == << toast, toastTimeout, timeouts, toastAge >>

\* clearTimeout(h): the timeout is disarmed; a handle that is not armed is
\* a no-op.
ClearTimeout(h) == { t \in timeouts : t[1] # h }

\* A showToast that arms its timeout without clearing the one before.
showToastNoClear(msg) ==
  LET free == (1..MaxTimeouts) \ { t[1] : t \in timeouts }
      h == CHOOSE f \in free : \A g \in free : f <= g
  IN  /\ free # {}
      /\ toast' = msg
      /\ toastTimeout' = h
      /\ timeouts' = timeouts \cup { << h, ToastDelay >> }
      /\ toastAge' = 0

\* showToast(msg) (store.tsx:360-369); setTimeout returns the least handle
\* that is not armed.
showToast(msg) ==
  LET kept == IF toastTimeout # NoTimer THEN ClearTimeout(toastTimeout) ELSE timeouts
      free == (1..MaxTimeouts) \ { t[1] : t \in kept }
      h == CHOOSE f \in free : \A g \in free : f <= g
  IN  /\ free # {}
      /\ toast' = msg
      /\ toastTimeout' = h
      /\ timeouts' = kept \cup { << h, ToastDelay >> }
      /\ toastAge' = 0

\* clampTurtlePoint (utils.tsx:2-6).
clampTurtlePoint(p) ==
  << Max(-ArenaMax, Min(ArenaMax, p[1])), Max(-ArenaMax, Min(ArenaMax, p[2])), p[3] >>

\* A loop that keeps a point only if it is farther than minDist from the
\* last kept one.
RECURSIVE FilterFromStrict(_, _, _)
FilterFromStrict(points, i, filtered) ==
  IF i > Len(points) THEN filtered
  ELSE LET last == filtered[Len(filtered)]
           keep == DistSq(points[i][1] - last[1], points[i][2] - last[2]) > MinDistSq
       IN  FilterFromStrict(points, i + 1,
                            IF keep THEN Append(filtered, points[i]) ELSE filtered)

\* The loop of filterPathPoints from index i on, with the points kept so far.
RECURSIVE FilterFrom(_, _, _)
FilterFrom(points, i, filtered) ==
  IF i > Len(points) THEN filtered
  ELSE LET last == filtered[Len(filtered)]
           keep == DistSq(points[i][1] - last[1], points[i][2] - last[2]) >= MinDistSq
       IN  FilterFrom(points, i + 1, IF keep THEN Append(filtered, points[i]) ELSE filtered)

\* filterPathPoints(points) with the default minDist (utils.tsx:8-19).
filterPathPoints(points) ==
  IF points = << >> THEN << >> ELSE FilterFrom(points, 2, << points[1] >>)

\* [...points].reverse()
Reverse(s) == [i \in 1..Len(s) |-> s[Len(s) + 1 - i]]

Station(position, id) == [position |-> position, id |-> id]
StartId == << "start" >>
EndId   == << "end" >>

\* The point [turtlePose.x, turtlePose.y, 0] the store calls teddy.
Teddy == << turtlePose.x, turtlePose.y, 0 >>

\* The body saveNamedPath posts for a path (store.tsx:196-200).
PostBody(path) ==
  [points   |-> [i \in 1..Len(path.points) |->
                   LET c == clampTurtlePoint(path.points[i])
                   IN  [x |-> c[1], y |-> c[2], theta |-> 0]],
   stations |-> [i \in 1..Len(path.stations) |->
                   LET s == path.stations[i]
                   IN  [x |-> s.position[1], y |-> s.position[2],
                        z |-> s.position[3], id |-> s.id]]]

\* new Path({name, points, stations}) under the schema with stations
\* {x, y, z}: a station's id is no schema path and is dropped.
SchemaCast(body) ==
  [points   |-> body.points,
   stations |-> [i \in 1..Len(body.stations) |->
                   [x |-> body.stations[i].x, y |-> body.stations[i].y,
                    z |-> body.stations[i].z]]]

\* The paths fetchPaths builds from the reply of GET /paths, which lists
\* the documents newest first (store.tsx:333-341, pathRoutes.js:20).
LoadPaths(docs) ==
  [k \in 1..Len(docs) |->
     LET n == Len(docs) + 1 - k
         p == docs[n]
     IN  [id       |-> << "db", n >>,
          points   |-> [i \in 1..Len(p.points) |->
                          << p.points[i].x, p.points[i].y, p.points[i].theta >>],
          stations |-> [i \in 1..Len(p.stations) |->
                          Station(<< p.stations[i].x, p.stations[i].y, p.stations[i].z >>,
                                  << "station", p.stations[i].x, p.stations[i].y >>)]]]

\* The recordings of an earlier page load: the positions the pose feed
\* reported between startMapping and stopMapping, no two in a row equal
\* (store.tsx:85-92).
StorePositions == { << p.x, p.y, 0 >> : p \in StorePoses }
Recordings ==
  { r \in UNION { [1..n -> StorePositions] : n \in 2..MaxRecorded } :
      \A i \in 1..(Len(r) - 1) : r[i] # r[i + 1] }

\* The path startMapping, the pose updates, stopMapping and saveNamedPath
\* make of a recording: the filtered points, the start station at the first
\* pose and the end station at the last (store.tsx:138-186).
RecordedPath(r) ==
  [points   |-> filterPathPoints(r),
   stations |-> << Station(r[1], StartId), Station(r[Len(r)], EndId) >>]

\* The documents such recordings leave in the store.
StoredDocs == { SchemaCast(PostBody(RecordedPath(r))) : r \in Recordings }

\* paths.find((p) => p.id === id): the index of the first match, 0 if none.
FindPath(id) ==
  IF \E i \in DOMAIN paths : paths[i].id = id
    THEN CHOOSE i \in DOMAIN paths :
           paths[i].id = id /\ \A j \in DOMAIN paths : paths[j].id = id => i <= j
    ELSE 0

\* A find that falls back on the first station when none matches.
FindStationOrFirst(stations, id) ==
  IF \E i \in DOMAIN stations : stations[i].id = id
    THEN CHOOSE i \in DOMAIN stations :
           stations[i].id = id /\ \A j \in DOMAIN stations : stations[j].id = id => i <= j
    ELSE 1

\* stations.find((s) => s.id === id): the index of the first match, 0 if none.
FindStation(stations, id) ==
  IF \E i \in DOMAIN stations : stations[i].id = id
    THEN CHOOSE i \in DOMAIN stations :
           stations[i].id = id /\ \A j \in DOMAIN stations : stations[j].id = id => i <= j
    ELSE 0

\* The state of a freshly created store (store.tsx:75-109, 218-222, 290-293,
\* 358-359).
StoreFresh ==
  [turtlePose |-> Origin, currentPath |-> << >>, isMapping |-> FALSE,
   stationsOnPath |-> << >>, pendingPath |-> Null, paths |-> << >>,
   selectedPathId |-> Null, selectedStation |-> Null,
   isMissionRunning |-> FALSE, missionPath |-> Null, socket |-> FALSE,
   connected |-> FALSE, toast |-> NoText,
   showNameModal |-> FALSE]

\* A page load while the store holds the documents docs.
StoreInitWith(docs) ==
  /\ turtlePose = StoreFresh.turtlePose
  /\ currentPath = StoreFresh.currentPath
  /\ isMapping = StoreFresh.isMapping
  /\ stationsOnPath = StoreFresh.stationsOnPath
  /\ pendingPath = StoreFresh.pendingPath
  /\ paths = StoreFresh.paths
  /\ selectedPathId = StoreFresh.selectedPathId
  /\ selectedStation = StoreFresh.selectedStation
  /\ isMissionRunning = StoreFresh.isMissionRunning
  /\ missionPath = StoreFresh.missionPath
  /\ socket = StoreFresh.socket
  /\ connected = StoreFresh.connected
  /\ toast = StoreFresh.toast
  /\ toastTimeout = NoTimer
  /\ timeouts = {}
  /\ toastAge = 0
  /\ showNameModal = StoreFresh.showNameModal
  /\ simPose = Origin
  /\ db = docs
  /\ posting = << >>
  /\ fetching = FALSE
  /\ sent = << >>
  /\ replied = ""

StoreInit == StoreInitWith(<< >>)

TypeOK ==
  /\ rosPc \in {"start", "done"}
  /\ isROSInitialized \in BOOLEAN
  /\ turtleVelPub \in BOOLEAN
  /\ currentMission \in {NoMission}
        \cup { << [points |-> ps, currentPose |-> p] >> : ps \in PointLists, p \in Poses \cup {Origin} }
  /\ missionInterval \in 0..MaxTimers
  /\ timers \subseteq 1..MaxTimers
  /\ clients \subseteq 1..MaxClients
  /\ crashed \in BOOLEAN
  /\ Len(published) <= 1
  /\ Len(emitted) <= 2

\* The module state of index.js before initROS2() has run (index.js:44-49).
ServerInit ==
  /\ rosPc = "start"
  /\ isROSInitialized = FALSE
  /\ turtleVelPub = FALSE
  /\ currentMission = NoMission
  /\ missionInterval = NoTimer
  /\ timers = {}
  /\ clients = {}
  /\ crashed = FALSE
  /\ lastOp = [op |-> "boot", arg |-> "", n |-> -1]
  /\ published = << >>
  /\ emitted = << >>

Init == ServerInit /\ StoreInit

\* initROS2(): succeeds, or throws before the publisher exists, or throws
\* at node.spin() after it was created.
InitROS2(outcome) ==
  /\ ~crashed
  /\ rosPc = "start"
  /\ rosPc' = "done"
  /\ isROSInitialized' = (outcome = "ok")
  /\ turtleVelPub' = (outcome \in {"ok", "spinFailed"})
  /\ lastOp' = Op("initROS2", outcome)
  /\ published' = << >>
  /\ emitted' = << >>
  /\ UNCHANGED << currentMission, missionInterval, timers, clients, crashed >>
  /\ UNCHANGED storeVars

\* The /turtle1/pose subscription callback.
ServerPose(msg) ==
  /\ ~crashed
  /\ isROSInitialized
  /\ LET onMission == Running /\ Len(Mission.points) > 0
         arrived   == onMission /\ Arrived(msg, Mission.points[1])
         complete  == arrived /\ Len(Mission.points) = 1
     IN  /\ currentMission' =
              IF ~Running \/ complete THEN NoMission
              ELSE << [points |-> IF arrived THEN Tail(Mission.points) ELSE Mission.points,
                       currentPose |-> msg] >>
         /\ timers' = IF complete THEN ClearInterval(missionInterval) ELSE timers
         /\ emitted' = IF complete THEN << "turtlePose", "missionComplete" >>
                       ELSE << "turtlePose" >>
         /\ published' = IF complete THEN StopTurtle ELSE << >>
  /\ lastOp' = Op("pose", "")
  /\ UNCHANGED << rosPc, isROSInitialized, turtleVelPub, missionInterval, clients, crashed >>

\* The pose callback as a step of the backend on its own.
PoseCallback(msg) == ServerPose(msg) /\ UNCHANGED storeVars

\* One firing of the armed interval t (the arrow function of setInterval).
Tick(t) ==
  /\ ~crashed
  /\ t \in timers
  /\ published' = IF Running /\ Len(Mission.points) > 0
                    THEN MoveToPoint(Mission.points[1])
                    ELSE << >>
  /\ emitted' = << >>
  /\ lastOp' = Op("tick", "")
  /\ UNCHANGED << rosPc, isROSInitialized, turtleVelPub, currentMission,
                  missionInterval, timers, clients, crashed >>
  /\ UNCHANGED storeVars

\* io.on('connection'): the handlers are registered and, if a mission
\* exists, the turtle is stopped and the interval cleared.
ServerConnection(c) ==
  /\ ~crashed
  /\ c \notin clients
  /\ clients' = clients \cup {c}
  /\ published' = IF Running THEN StopTurtle ELSE << >>
  /\ timers' = IF Running THEN ClearInterval(missionInterval) ELSE timers
  /\ emitted' = << >>
  /\ lastOp' = Op("connect", "")
  /\ UNCHANGED << rosPc, isROSInitialized, turtleVelPub, currentMission,
                  missionInterval, crashed >>

\* A connection as a step of the backend on its own.
Connect(c) == ServerConnection(c) /\ UNCHANGED storeVars

\* socket.on('turtleControl'), received from some connected socket (the
\* handler never reads which).
TurtleControl(data) ==
  /\ ~crashed
  /\ clients # {}
  /\ published' =
       IF ~isROSInitialized \/ ~turtleVelPub THEN << >>
       ELSE IF data.kind = "numeric" THEN << Twist(data.linear, data.angular) >>
       ELSE << >>   \* data.linear or publish() throws inside the try: caught
  /\ emitted' = << >>
  /\ lastOp' = Op("turtleControl", data.kind)
  /\ UNCHANGED << rosPc, isROSInitialized, turtleVelPub, currentMission,
                  missionInterval, timers, clients, crashed >>
  /\ UNCHANGED storeVars

\* Whether the startMission handler takes the payload as a mission.
StartAccepted(path) == path.kind = "array" /\ isROSInitialized

\* socket.on('startMission').
ServerStartMission(path) ==
  /\ ~crashed
  /\ clients # {}
  /\ published' = << >>
  /\ emitted' = << >>
  /\ lastOp' = Op("startMission",
                  IF path.kind = "array" /\ path.points = << >> THEN "empty" ELSE path.kind)
  /\ IF path.kind = "null"
       THEN \* path.points on undefined/null throws outside any try
            /\ crashed' = TRUE
            /\ UNCHANGED << currentMission, missionInterval, timers >>
     ELSE IF ~StartAccepted(path)
       THEN UNCHANGED << currentMission, missionInterval, timers, crashed >>
     ELSE /\ FreeTimers # {}
          /\ currentMission' = << [points |-> path.points,
                                   currentPose |-> Origin] >>
          /\ missionInterval' = NewTimer
          /\ timers' = timers \cup {NewTimer}
          /\ UNCHANGED crashed
  /\ UNCHANGED << rosPc, isROSInitialized, turtleVelPub, clients >>

\* A startMission as a step of the backend on its own.
StartMission(path) == ServerStartMission(path) /\ UNCHANGED storeVars

\* socket.on('stopMission').
ServerStopMission ==
  /\ ~crashed
  /\ clients # {}
  /\ timers' = TimersAfterStop
  /\ missionInterval' = NoTimer
  /\ currentMission' = NoMission
  /\ published' = StopTurtle
  /\ emitted' = << "missionStopped" >>
  /\ lastOp' = Op("stopMission", "")
  /\ UNCHANGED << rosPc, isROSInitialized, turtleVelPub, clients, crashed >>

\* A stopMission as a step of the backend on its own.
StopMission == ServerStopMission /\ UNCHANGED storeVars

\* A disconnect handler that only forgets the socket.
DisconnectKeepsMission(c) ==
  /\ ~crashed
  /\ c \in clients
  /\ clients' = clients \ {c}
  /\ published' = << >>
  /\ emitted' = << >>
  /\ lastOp' = Op("disconnect", "")
  /\ UNCHANGED << rosPc, isROSInitialized, turtleVelPub, currentMission,
                  missionInterval, timers, crashed >>
  /\ UNCHANGED storeVars

\* socket.on('disconnect').
ServerDisconnect(c) ==
  /\ ~crashed
  /\ c \in clients
  /\ clients' = clients \ {c}
  /\ timers' = TimersAfterStop
  /\ missionInterval' = NoTimer
  /\ currentMission' = NoMission
  /\ published' = StopTurtle
  /\ emitted' = << >>
  /\ lastOp' = Op("disconnect", "")
  /\ UNCHANGED << rosPc, isROSInitialized, turtleVelPub, crashed >>

\* A disconnect as a step of the backend on its own.
Disconnect(c) == ServerDisconnect(c) /\ UNCHANGED storeVars

Next ==
  \/ \E o \in {"ok", "failed", "spinFailed"} : InitROS2(o)
  \/ \E msg \in Poses : PoseCallback(msg)
  \/ \E t \in 1..MaxTimers : Tick(t)
  \/ \E c \in 1..MaxClients : Connect(c)
  \/ \E data \in ControlPayloads : TurtleControl(data)
  \/ \E path \in StartPayloads : StartMission(path)
  \/ StopMission
  \/ \E c \in 1..MaxClients : Disconnect(c)

Spec == Init /\ [][Next]_vars

(***************************************************************************)
(* The client store: its operations, the socket callbacks registered by    *)
(* initializeSocket, the replies to its HTTP requests and the page reload. *)
(***************************************************************************)
Msg(event, data) == [event |-> event, data |-> data]

\* The messages of an event among those the step emits.
SentNow(event) == { k \in DOMAIN sent' : sent'[k].event = event }

\* socket.emit('teleportTurtle', {x, y, theta: 0}).  The backend registers
\* no handler for the event (index.js:178-259): nothing receives it.
Teleport(x, y) == Msg("teleportTurtle", [x |-> x, y |-> y, theta |-> 0])

\* currentPath after setTurtlePose(pose) (store.tsx:82-92).
PathAfterPose(pose) ==
  IF isMapping /\ ( \/ currentPath = << >>
                    \/ currentPath[Len(currentPath)][1] # pose.x
                    \/ currentPath[Len(currentPath)][2] # pose.y )
    THEN Append(currentPath, << pose.x, pose.y, 0 >>)
    ELSE currentPath

\* What setTurtlePose(pose) writes (store.tsx:80-100).
setTurtlePose(pose) ==
  /\ turtlePose' = pose
  /\ currentPath' = PathAfterPose(pose)

\* turtlesim publishes the pose msg; the backend relays it as it is with
\* io.emit('turtlePose', msg) (index.js:62-66) and a connected client runs
\* setTurtlePose(msg) (store.tsx:311-313, 80-100).
PoseBroadcast(msg) ==
  /\ simPose' = msg
  /\ IF connected
       THEN /\ Len(PathAfterPose(msg)) <= MaxPathLen
            /\ setTurtlePose(msg)
       ELSE UNCHANGED << turtlePose, currentPath >>
  /\ sent' = << >>
  /\ UNCHANGED << isMapping, stationsOnPath, pendingPath, paths, selectedPathId,
                  selectedStation, isMissionRunning, missionPath, socket, connected,
                  toastVars, showNameModal, db, posting, fetching >>
  /\ replied' = ""
  /\ UNCHANGED vars

\* setStartingStation (store.tsx:111-137).
SetStartingStation ==
  /\ isMapping => Len(stationsOnPath) < MaxStations
  /\ sent' = IF socket /\ connected THEN << Teleport(Teddy[1], Teddy[2]) >> ELSE << >>
  /\ IF ~isMapping
       THEN /\ stationsOnPath' = << Station(Teddy, StartId) >>
            /\ turtlePose' = [x |-> Teddy[1], y |-> Teddy[2], theta |-> 0]
            /\ selectedStation' = StartId
       ELSE /\ stationsOnPath' =
                 Append(stationsOnPath, Station(Teddy, << "station", Len(stationsOnPath) >>))
            /\ selectedStation' = << "station", Len(stationsOnPath) >>
            /\ UNCHANGED turtlePose
  /\ UNCHANGED << currentPath, isMapping, pendingPath, paths, selectedPathId,
                  isMissionRunning, missionPath, socket, connected, toastVars,
                  showNameModal, simPose, db, posting, fetching >>
  /\ replied' = ""
  /\ UNCHANGED vars

\* startMapping (store.tsx:138-148).
StartMapping ==
  /\ Len(paths) < MaxPaths
  /\ Len(db) + Len(posting) < MaxPaths
  /\ isMapping' = TRUE
  /\ stationsOnPath' = << Station(Teddy, StartId) >>
  /\ currentPath' = << Teddy >>
  /\ selectedStation' = StartId
  /\ sent' = << >>
  /\ UNCHANGED << turtlePose, pendingPath, paths, selectedPathId, isMissionRunning,
                  missionPath, socket, connected, toastVars, showNameModal,
                  simPose, db, posting, fetching >>
  /\ replied' = ""
  /\ UNCHANGED vars

\* stopMapping (store.tsx:149-177).
StopMapping ==
  /\ IF Len(currentPath) < 2
       THEN /\ isMapping' = FALSE
            /\ currentPath' = << >>
            /\ stationsOnPath' = << >>
            /\ showNameModal' = FALSE
            /\ showToast("Path too short to save.")
            /\ UNCHANGED << pendingPath, selectedStation >>
       ELSE /\ isMapping' = FALSE
            /\ pendingPath' = << filterPathPoints(currentPath) >>
            /\ showNameModal' = TRUE
            /\ currentPath' = << >>
            /\ stationsOnPath' = Append(stationsOnPath, Station(Teddy, EndId))
            /\ selectedStation' = EndId
            /\ UNCHANGED toastVars
  /\ sent' = << >>
  /\ UNCHANGED << turtlePose, paths, selectedPathId, isMissionRunning, missionPath,
                  socket, connected, simPose, db, posting, fetching >>
  /\ replied' = ""
  /\ UNCHANGED vars

\* saveNamedPath up to its await (store.tsx:178-200): the path joins the
\* list and the POST is issued.
SaveNamedPath ==
  /\ IF pendingPath = Null
       THEN UNCHANGED << paths, showNameModal, pendingPath, stationsOnPath,
                         selectedPathId, posting >>
       ELSE LET newPath == [id       |-> << "local", Len(paths) + 1 >>,
                            points   |-> pendingPath[1],
                            stations |-> stationsOnPath]
            IN  /\ Len(paths) < MaxPaths
                /\ Len(db) + Len(posting) < MaxPaths
                /\ paths' = Append(paths, newPath)
                /\ showNameModal' = FALSE
                /\ pendingPath' = Null
                /\ stationsOnPath' = << >>
                /\ selectedPathId' = newPath.id
                /\ posting' = Append(posting, PostBody(newPath))
  /\ sent' = << >>
  /\ UNCHANGED << turtlePose, currentPath, isMapping, selectedStation,
                  isMissionRunning, missionPath, socket, connected, toastVars,
                  simPose, db, fetching >>
  /\ replied' = ""
  /\ UNCHANGED vars

\* A reply to POST /savePath that changes nothing the user sees.
SaveReplySilent(outcome) ==
  /\ posting # << >>
  /\ posting' = Tail(posting)
  /\ db' = IF outcome = "ok" THEN Append(db, SchemaCast(Head(posting))) ELSE db
  /\ sent' = << >>
  /\ UNCHANGED << turtlePose, currentPath, isMapping, stationsOnPath, pendingPath,
                  paths, selectedPathId, selectedStation, isMissionRunning,
                  missionPath, socket, connected, toastVars, showNameModal,
                  simPose, fetching >>
  /\ replied' = IF outcome = "ok" THEN "saved" ELSE "saveFailed"
  /\ UNCHANGED vars

\* The rest of saveNamedPath (store.tsx:201-205) once POST /savePath
\* (pathRoutes.js:7-16) has answered: 201 after the document was stored, or
\* a failure (500 from the catch, or no answer).
SaveReply(outcome) ==
  /\ posting # << >>
  /\ posting' = Tail(posting)
  /\ IF outcome = "ok"
       THEN /\ db' = Append(db, SchemaCast(Head(posting)))
            /\ showToast("Path saved successfully!")
       ELSE /\ showToast("Failed to save path")
            /\ UNCHANGED db
  /\ sent' = << >>
  /\ UNCHANGED << turtlePose, currentPath, isMapping, stationsOnPath, pendingPath,
                  paths, selectedPathId, selectedStation, isMissionRunning,
                  missionPath, socket, connected, showNameModal, simPose, fetching >>
  /\ replied' = IF outcome = "ok" THEN "saved" ELSE "saveFailed"
  /\ UNCHANGED vars

\* cancelNamedPath (store.tsx:207-215).
CancelNamedPath ==
  /\ showNameModal' = FALSE
  /\ pendingPath' = Null
  /\ stationsOnPath' = << >>
  /\ selectedStation' = Null
  /\ sent' = << >>
  /\ UNCHANGED << turtlePose, currentPath, isMapping, paths, selectedPathId,
                  isMissionRunning, missionPath, socket, connected, toastVars,
                  simPose, db, posting, fetching >>
  /\ replied' = ""
  /\ UNCHANGED vars

\* setSelectedPathId(id), from the dropdown of the paths (Scene.tsx:600).
SetSelectedPathId(id) ==
  /\ selectedPathId' = id
  /\ sent' = << >>
  /\ UNCHANGED << turtlePose, currentPath, isMapping, stationsOnPath, pendingPath,
                  paths, selectedStation, isMissionRunning, missionPath, socket,
                  connected, toastVars, showNameModal, simPose, db, posting, fetching >>
  /\ replied' = ""
  /\ UNCHANGED vars

\* The station ids the markers offer: the first and the last station of the
\* selected path, and the stations of the recording (Scene.tsx:346-419).
MarkerIds ==
  LET i == FindPath(selectedPathId)
      st == IF i = 0 THEN << >> ELSE paths[i].stations
  IN  { st[k].id : k \in { k \in DOMAIN st : k = 1 \/ k = Len(st) } }
        \cup { stationsOnPath[k].id : k \in DOMAIN stationsOnPath }

\* setSelectedStation(id), from a click on a station marker.
SetSelectedStation(id) ==
  /\ selectedStation' = id
  /\ sent' = << >>
  /\ UNCHANGED << turtlePose, currentPath, isMapping, stationsOnPath, pendingPath,
                  paths, selectedPathId, isMissionRunning, missionPath, socket,
                  connected, toastVars, showNameModal, simPose, db, posting, fetching >>
  /\ replied' = ""
  /\ UNCHANGED vars

\* path.points.map(clampTurtlePoint).map(([x, y]) => [x, y]) (store.tsx:260).
PathWaypoints(path) ==
  [i \in 1..Len(path.points) |->
     << clampTurtlePoint(path.points[i])[1], clampTurtlePoint(path.points[i])[2] >>]

\* The points startMission sends for a path and a selected station: the
\* waypoints, reversed if the station is the path's last (store.tsx:260-265).
MissionPoints(path, station) ==
  LET isEndStation == /\ path.stations # << >>
                      /\ path.stations[Len(path.stations)].id = station
  IN  IF isEndStation THEN Reverse(PathWaypoints(path)) ELSE PathWaypoints(path)

\* startMission of the store (store.tsx:225-275).
ClientStartMission ==
  LET i == FindPath(selectedPathId)
      k == IF i = 0 THEN 0 ELSE FindStation(paths[i].stations, selectedStation)
      refuse(msg) ==
        /\ showToast(msg)
        /\ sent' = << >>
        /\ UNCHANGED << turtlePose, isMissionRunning, missionPath >>
  IN  /\ IF selectedPathId = Null THEN refuse("Please select a path!")
         ELSE IF selectedStation = Null THEN refuse("Select a station!")
         ELSE IF i = 0 \/ ~socket THEN refuse("Invalid path or no connection!")
         ELSE IF k = 0 THEN refuse("Invalid station selected!")
         ELSE LET station == paths[i].stations[k]
                  points == MissionPoints(paths[i], selectedStation)
              IN  /\ turtlePose' = [x |-> station.position[1],
                                    y |-> station.position[2], theta |-> 0]
                  /\ isMissionRunning' = TRUE
                  /\ missionPath' = << points >>
                  /\ sent' = << Teleport(station.position[1], station.position[2]),
                                Msg("startMission", points) >>
                  /\ showToast("Mission started!")
      /\ UNCHANGED << currentPath, isMapping, stationsOnPath, pendingPath, paths,
                      selectedPathId, selectedStation, socket, connected,
                      showNameModal, simPose, db, posting, fetching >>
      /\ replied' = ""

\* startMission as a step of the client on its own.
StoreStartMission == ClientStartMission /\ UNCHANGED vars

\* stopMission of the store (store.tsx:276-287).
ClientStopMission ==
  /\ sent' = IF socket THEN << Msg("stopMission", Null) >> ELSE << >>
  /\ isMissionRunning' = FALSE
  /\ missionPath' = Null
  /\ showToast("Mission stopped!")
  /\ UNCHANGED << turtlePose, currentPath, isMapping, stationsOnPath, pendingPath,
                  paths, selectedPathId, selectedStation, socket, connected,
                  showNameModal, simPose, db, posting, fetching >>
  /\ replied' = ""

\* stopMission as a step of the client on its own.
StoreStopMission == ClientStopMission /\ UNCHANGED vars

\* initializeSocket, run once by the mounted ROSConnection component
\* (store.tsx:294-349, ROSConnection.tsx:8-10): the socket is created, its
\* callbacks registered and GET /paths issued.
InitializeSocket ==
  /\ ~socket
  /\ socket' = TRUE
  /\ fetching' = TRUE
  /\ sent' = << >>
  /\ UNCHANGED << turtlePose, currentPath, isMapping, stationsOnPath, pendingPath,
                  paths, selectedPathId, selectedStation, isMissionRunning,
                  missionPath, connected, toastVars, showNameModal, simPose,
                  db, posting >>
  /\ replied' = ""
  /\ UNCHANGED vars

\* The rest of fetchPaths once GET /paths (pathRoutes.js:18-25) has
\* answered: the list of documents, or a failure.
FetchReply(outcome) ==
  /\ fetching
  /\ fetching' = FALSE
  /\ IF outcome = "ok"
       THEN /\ paths' = LoadPaths(db)
            /\ UNCHANGED toastVars
       ELSE /\ showToast("Failed to fetch saved paths")
            /\ UNCHANGED paths
  /\ sent' = << >>
  /\ UNCHANGED << turtlePose, currentPath, isMapping, stationsOnPath, pendingPath,
                  selectedPathId, selectedStation, isMissionRunning, missionPath,
                  socket, connected, showNameModal, simPose, db, posting >>
  /\ replied' = IF outcome = "ok" THEN "listed" ELSE "listFailed"
  /\ UNCHANGED vars

\* socket 'connect' (store.tsx:296-306).
ClientConnect ==
  /\ socket /\ ~connected
  /\ connected' = TRUE
  /\ turtlePose' = Origin
  /\ showToast("Connected to ROS!")
  /\ sent' = << >>
  /\ UNCHANGED << currentPath, isMapping, stationsOnPath, pendingPath, paths,
                  selectedPathId, selectedStation, isMissionRunning, missionPath,
                  socket, showNameModal, simPose, db, posting, fetching >>
  /\ replied' = ""

\* The socket's connect as a step of the client on its own.
OnConnect == ClientConnect /\ UNCHANGED vars

\* socket 'disconnect' (store.tsx:307-310).
ClientDisconnect ==
  /\ socket /\ connected
  /\ connected' = FALSE
  /\ showToast("Disconnected from ROS")
  /\ sent' = << >>
  /\ UNCHANGED << turtlePose, currentPath, isMapping, stationsOnPath, pendingPath,
                  paths, selectedPathId, selectedStation, isMissionRunning,
                  missionPath, socket, showNameModal, simPose, db, posting,
                  fetching >>
  /\ replied' = ""

\* The socket's disconnect as a step of the client on its own.
OnDisconnect == ClientDisconnect /\ UNCHANGED vars

\* What the callbacks of 'missionComplete' and 'missionStopped' write
\* (store.tsx:318-325).
missionEnded(event) ==
  /\ isMissionRunning' = FALSE
  /\ missionPath' = Null
  /\ showToast(IF event = "missionComplete" THEN "Mission complete!" ELSE "Mission stopped!")

\* socket 'missionComplete' and 'missionStopped' (store.tsx:318-325), which
\* the backend broadcasts to every client.
OnMissionEnd(event) ==
  /\ socket /\ connected
  /\ missionEnded(event)
  /\ sent' = << >>
  /\ UNCHANGED << turtlePose, currentPath, isMapping, stationsOnPath, pendingPath,
                  paths, selectedPathId, selectedStation, socket, connected,
                  showNameModal, simPose, db, posting, fetching >>
  /\ replied' = ""
  /\ UNCHANGED vars

\* d seconds pass: every armed timeout comes d seconds closer; no timeout
\* is overdue, since the event loop runs a callback when it is due.
Elapse(d) ==
  /\ timeouts # {}
  /\ \A t \in timeouts : t[2] >= d
  /\ timeouts' = { << t[1], t[2] - d >> : t \in timeouts }
  /\ toastAge' = toastAge + d
  /\ sent' = << >>
  /\ UNCHANGED << turtlePose, currentPath, isMapping, stationsOnPath, pendingPath,
                  paths, selectedPathId, selectedStation, isMissionRunning,
                  missionPath, socket, connected, toast, toastTimeout,
                  showNameModal, simPose, db, posting, fetching >>
  /\ replied' = ""
  /\ UNCHANGED vars

\* The callback of the timeout h armed by showToast, run when it is due
\* (store.tsx:365-368).
ToastExpire(h) ==
  /\ << h, 0 >> \in timeouts
  /\ timeouts' = timeouts \ { << h, 0 >> }
  /\ toast' = NoText
  /\ toastTimeout' = NoTimer
  /\ toastAge' = 0
  /\ sent' = << >>
  /\ UNCHANGED << turtlePose, currentPath, isMapping, stationsOnPath, pendingPath,
                  paths, selectedPathId, selectedStation, isMissionRunning,
                  missionPath, socket, connected, showNameModal, simPose,
                  db, posting, fetching >>
  /\ replied' = ""
  /\ UNCHANGED vars

\* The page is loaded again: a fresh store; the stored documents and the
\* turtle stay.
Reload ==
  /\ socket
  /\ turtlePose' = StoreFresh.turtlePose
  /\ currentPath' = StoreFresh.currentPath
  /\ isMapping' = StoreFresh.isMapping
  /\ stationsOnPath' = StoreFresh.stationsOnPath
  /\ pendingPath' = StoreFresh.pendingPath
  /\ paths' = StoreFresh.paths
  /\ selectedPathId' = StoreFresh.selectedPathId
  /\ selectedStation' = StoreFresh.selectedStation
  /\ isMissionRunning' = StoreFresh.isMissionRunning
  /\ missionPath' = StoreFresh.missionPath
  /\ socket' = StoreFresh.socket
  /\ connected' = StoreFresh.connected
  /\ toast' = StoreFresh.toast
  /\ toastTimeout' = NoTimer
  /\ timeouts' = {}
  /\ toastAge' = 0
  /\ showNameModal' = StoreFresh.showNameModal
  /\ posting' = << >>
  /\ fetching' = FALSE
  /\ sent' = << >>
  /\ UNCHANGED << simPose, db >>
  /\ replied' = ""
  /\ UNCHANGED vars

\* Recording and saving.
StoreNext ==
  \/ \E msg \in StorePoses : PoseBroadcast(msg)
  \/ InitializeSocket
  \/ OnConnect
  \/ SetStartingStation
  \/ StartMapping
  \/ StopMapping
  \/ SaveNamedPath
  \/ \E o \in {"ok", "failed"} : SaveReply(o)
  \/ CancelNamedPath
  \/ \E o \in {"ok", "failed"} : FetchReply(o)
  \/ Elapse(ToastDelay)
  \/ \E h \in 1..MaxTimeouts : ToastExpire(h)
  \/ Reload

SpecStore == Init /\ [][StoreNext]_storeVars

\* A page load while the store holds a document of an earlier recording.
LoadedInit == ServerInit /\ \E doc \in StoredDocs : StoreInitWith(<< doc >>)

\* The poses of a turtle that stays inside [-10, 10]^2.
ArenaPoses == { p \in StorePoses : p.x <= ArenaMax /\ p.y <= ArenaMax }

\* A recording saved and run as a mission while the replies are awaited.
PersistNext ==
  \/ \E msg \in ArenaPoses : PoseBroadcast(msg)
  \/ InitializeSocket
  \/ OnConnect
  \/ StartMapping
  \/ StopMapping
  \/ SaveNamedPath
  \/ \E o \in {"ok", "failed"} : SaveReply(o)
  \/ \E o \in {"ok", "failed"} : FetchReply(o)
  \/ StoreStartMission

SpecPersist == Init /\ [][PersistNext]_storeVars

\* Missions on the stored paths.
MissionNext ==
  \/ InitializeSocket
  \/ \E o \in {"ok", "failed"} : FetchReply(o)
  \/ OnConnect
  \/ OnDisconnect
  \/ \E id \in {Null} \cup { paths[i].id : i \in DOMAIN paths } : SetSelectedPathId(id)
  \/ \E id \in MarkerIds : SetSelectedStation(id)
  \/ SetStartingStation
  \/ StoreStartMission
  \/ StoreStopMission
  \/ \E e \in {"missionComplete", "missionStopped"} : OnMissionEnd(e)
  \/ Elapse(ToastDelay)
  \/ \E h \in 1..MaxTimeouts : ToastExpire(h)
  \/ Reload

SpecMission == LoadedInit /\ [][MissionNext]_storeVars

\* The notifications of a session and their timeouts, second by second.
ToastNext ==
  \/ InitializeSocket
  \/ \E o \in {"ok", "failed"} : FetchReply(o)
  \/ OnConnect
  \/ OnDisconnect
  \/ StoreStartMission
  \/ StoreStopMission
  \/ \E e \in {"missionComplete", "missionStopped"} : OnMissionEnd(e)
  \/ \E d \in 1..ToastDelay : Elapse(d)
  \/ \E h \in 1..MaxTimeouts : ToastExpire(h)

SpecToast == Init /\ [][ToastNext]_storeVars

\* filterPathPoints on its own: currentPath holds the argument and
\* pendingPath receives the result, as in stopMapping (store.tsx:162-169).
FilterInit ==
  /\ ServerInit
  /\ \E points \in FilterInputs :
        /\ currentPath = points
        /\ turtlePose = StoreFresh.turtlePose
        /\ isMapping = TRUE
        /\ stationsOnPath = StoreFresh.stationsOnPath
        /\ pendingPath = Null
        /\ paths = StoreFresh.paths
        /\ selectedPathId = StoreFresh.selectedPathId
        /\ selectedStation = StoreFresh.selectedStation
        /\ isMissionRunning = StoreFresh.isMissionRunning
        /\ missionPath = StoreFresh.missionPath
        /\ socket = StoreFresh.socket
        /\ connected = StoreFresh.connected
        /\ toast = StoreFresh.toast
        /\ toastTimeout = NoTimer
        /\ timeouts = {}
        /\ toastAge = 0
        /\ showNameModal = StoreFresh.showNameModal
        /\ simPose = Origin
        /\ db = << >>
        /\ posting = << >>
        /\ fetching = FALSE
        /\ sent = << >>
        /\ replied = ""

\* const filteredPath = filterPathPoints(currentPath) (store.tsx:162).
FilterCall ==
  /\ pendingPath = Null
  /\ pendingPath' = << filterPathPoints(currentPath) >>
  /\ sent' = << >>
  /\ UNCHANGED << turtlePose, currentPath, isMapping, stationsOnPath, paths,
                  selectedPathId, selectedStation, isMissionRunning, missionPath,
                  socket, connected, toastVars, showNameModal, simPose, db,
                  posting, fetching >>
  /\ replied' = ""
  /\ UNCHANGED vars

FilterNext == FilterCall

SpecFilter == FilterInit /\ [][FilterNext]_storeVars

(***************************************************************************)
(* The client and the backend together.  The store is the client with the  *)
(* socket id Browser; the other sockets are clients whose stores are not   *)
(* modelled.  A message is handled in the step that emits it: the socket   *)
(* delivers in order and without loss, and no handler waits for another.   *)
(***************************************************************************)
Browser == 1
Others == (1..MaxClients) \ {Browser}

\* The document of a path recorded from (0.1, 0) to (1.1, 0), the waypoints
\* of the backend's payloads.
SystemDoc ==
  SchemaCast(PostBody(RecordedPath(<< << 10, 0, 0 >>, << 110, 0, 0 >> >>)))

\* The poses turtlesim reports in these runs.
SystemPoses == { p \in Poses : p.theta = 0 }

SystemInit == ServerInit /\ StoreInitWith(<< SystemDoc >>)

sysVars == << vars, storeVars >>

\* The callbacks the client runs for the events the backend emits in this
\* step with io.emit (store.tsx:311-325); msg is the pose of a turtlePose.
ClientReceives(msg) ==
  LET has(e) == \E i \in DOMAIN emitted' : emitted'[i] = e
  IN  /\ IF connected /\ has("turtlePose")
            THEN setTurtlePose(msg)
            ELSE UNCHANGED << turtlePose, currentPath >>
      /\ IF connected /\ has("missionComplete") THEN missionEnded("missionComplete")
         ELSE IF connected /\ has("missionStopped") THEN missionEnded("missionStopped")
         ELSE UNCHANGED << isMissionRunning, missionPath, toastVars >>
      /\ sent' = << >>
      /\ replied' = ""
      /\ UNCHANGED << isMapping, stationsOnPath, pendingPath, paths, selectedPathId,
                      selectedStation, socket, connected, showNameModal, db,
                      posting, fetching >>

\* The browser's socket connects: 'connect' at the client, 'connection' at
\* the backend.
SysConnect == ClientConnect /\ ServerConnection(Browser)

\* The browser's socket disconnects.
SysDisconnect == ClientDisconnect /\ ServerDisconnect(Browser)

\* startMission at the connected browser; the backend handles the
\* startMission the store emits, if it emits one.
SysStartMission ==
  /\ connected
  /\ ClientStartMission
  /\ IF SentNow("startMission") = {}
       THEN UNCHANGED vars
       ELSE \E k \in SentNow("startMission") :
              ServerStartMission([kind |-> "array", points |-> sent'[k].data])

\* stopMission at the connected browser; the backend handles it, and the
\* missionStopped it broadcasts writes what the store just wrote.
SysStopMission ==
  /\ connected
  /\ ClientStopMission
  /\ ServerStopMission

\* Another client connects, starts a mission, stops it or disconnects.
OtherConnect(c) == c \in Others /\ Connect(c)
OtherStartMission(path) == Others \cap clients # {} /\ StartMission(path)
OtherStopMission ==
  /\ Others \cap clients # {}
  /\ ServerStopMission
  /\ ClientReceives(Origin)
  /\ UNCHANGED simPose
OtherDisconnect(c) == c \in Others /\ Disconnect(c)

\* turtlesim publishes a pose: the backend's callback runs and the browser
\* handles what it broadcasts.
SysPose(msg) ==
  /\ ServerPose(msg)
  /\ simPose' = msg
  /\ ClientReceives(msg)

SystemNext ==
  \/ \E o \in {"ok", "failed"} : InitROS2(o)
  \/ \E msg \in SystemPoses : SysPose(msg)
  \/ \E t \in 1..MaxTimers : Tick(t)
  \/ InitializeSocket
  \/ \E o \in {"ok", "failed"} : FetchReply(o)
  \/ SysConnect
  \/ SysDisconnect
  \/ \E id \in { paths[i].id : i \in DOMAIN paths } : SetSelectedPathId(id)
  \/ \E id \in MarkerIds : SetSelectedStation(id)
  \/ SysStartMission
  \/ SysStopMission
  \/ \E c \in 1..MaxClients : OtherConnect(c)
  \/ \E ps \in PointLists : OtherStartMission([kind |-> "array", points |-> ps])
  \/ OtherStopMission
  \/ \E c \in 1..MaxClients : OtherDisconnect(c)

SpecSystem == SystemInit /\ [][SystemNext]_sysVars

\* The boot runs initROS2, an armed interval keeps firing and turtlesim
\* keeps publishing; nothing makes a user act.
SpecSystemFair ==
  /\ SpecSystem
  /\ WF_sysVars(\E o \in {"ok", "failed"} : InitROS2(o))
  /\ WF_sysVars(\E t \in 1..MaxTimers : Tick(t))
  /\ WF_sysVars(\E msg \in SystemPoses : SysPose(msg))


(***************************************************************************)
(* Properties.                                                             *)
(***************************************************************************)
MissionState == << currentMission, missionInterval, timers >>

\* The squared distance and the heading error between the mission's stored
\* pose and its current target, in a state with a non-empty mission.
TargetDistSq ==
  DistSq(Mission.points[1][1] - Mission.currentPose.x,
         Mission.points[1][2] - Mission.currentPose.y)
TargetHeadingError == AngleDifference(Mission.currentPose, Mission.points[1])
OnTarget == Running /\ Mission.points # << >>

\* C1: a startMission received while a mission exists leaves the mission
\* record, the interval handle and the armed timers as they were.
C1_StartWhileRunningRejected ==
  [][ (Running /\ lastOp'.op = "startMission") => UNCHANGED MissionState ]_vars

\* C2: a turtleControl received while a mission exists publishes no
\* velocity command.
C2_ManualIgnoredWhileRunning ==
  [][ (Running /\ lastOp'.op = "turtleControl") => published' = << >> ]_vars

\* C3: a stopMission or a disconnect disarms the interval whose handle the
\* mission held and leaves no mission and no handle; an interval is armed
\* only by an accepted startMission; and every interval firing while there
\* is no mission publishes nothing.
C3_Cancellation ==
  [][ /\ lastOp'.op \in {"stopMission", "disconnect"} =>
           /\ missionInterval \notin timers'
           /\ ~Running'
           /\ missionInterval' = NoTimer
      /\ timers' \ timers # {} => lastOp'.op = "startMission" /\ Running'
      /\ (lastOp'.op = "tick" /\ ~Running) => published' = << >>
    ]_vars

\* A mission with waypoints left was running when the stop or disconnect
\* that ran last was processed.
C3_Witness ==
  /\ lastOp.op \in {"stopMission", "disconnect"}
  /\ lastOp.n >= 1

\* C4: a pose within tolerance of the last remaining waypoint completes the
\* mission; the completing callback emits missionComplete exactly once,
\* disarms the mission's interval and publishes the zero twist; a
\* missionComplete is emitted by no other step; and interval firings
\* publish nothing once there is no mission.
C4_Completion ==
  [][ LET completes == lastOp'.op = "pose" /\ Running /\ ~Running'
          nComplete == Cardinality({ i \in DOMAIN emitted' : emitted'[i] = "missionComplete" })
      IN  /\ (lastOp'.op = "pose" /\ Running /\ Running' /\ Len(Mission.points) = 1) =>
                DistSq(Mission'.currentPose.x - Mission.points[1][1],
                       Mission'.currentPose.y - Mission.points[1][2]) >= ArrivalTolSq
          /\ completes =>
                /\ Len(Mission.points) = 1
                /\ nComplete = 1
                /\ missionInterval \notin timers'
                /\ published' = << ZeroTwist >>
          /\ nComplete > 0 => completes
          /\ (lastOp'.op = "tick" /\ ~Running) => published' = << >>
    ]_vars

\* The pose callback that ran last completed a mission with one waypoint left.
C4_Witness ==
  /\ lastOp.op = "pose"
  /\ lastOp.n = 1
  /\ ~Running
  /\ emitted = << "turtlePose", "missionComplete" >>

\* C5: while a mission lasts, the list of remaining waypoints only loses
\* its head, one waypoint per step, and it does so exactly in the pose
\* callbacks whose pose is closer than 0.1 to the head.
C5_ArrivalMonotonic ==
  [][ (Running /\ Running' /\ lastOp'.op # "startMission") =>
        LET ps  == Mission.points
            ps2 == Mission'.points
            near == ps # << >> /\
                    DistSq(Mission'.currentPose.x - ps[1][1],
                           Mission'.currentPose.y - ps[1][2]) < ArrivalTolSq
        IN  /\ Len(ps2) <= Len(ps)
            /\ Len(ps2) < Len(ps) => (ps2 = Tail(ps) /\ lastOp'.op = "pose" /\ near)
            /\ (lastOp'.op = "pose" /\ near) => (ps # << >> /\ ps2 = Tail(ps))
    ]_vars

\* The pose callback that ran last consumed a waypoint and the mission goes on.
C5_Witness ==
  /\ lastOp.op = "pose"
  /\ Running
  /\ Len(Mission.points) = lastOp.n - 1

\* C6: after a tick on a target whose heading error exceeds 0.2 rad, the
\* published command is zero linear velocity and angular velocity
\* sign(error) * min(|error|, 1.0).
C6_RotateFirst ==
  (lastOp.op = "tick" /\ OnTarget /\ Abs(TargetHeadingError) > AngleTol) =>
     published = << [lin |-> 0,
                     ang |-> Sign(TargetHeadingError) *
                             Min(Abs(TargetHeadingError), MaxAngular)] >>

\* A tick rotated in place although its target was within the arrival
\* tolerance, with an error below the angular cap.
C6_Witness ==
  /\ lastOp.op = "tick"
  /\ OnTarget
  /\ Abs(TargetHeadingError) > AngleTol
  /\ Abs(TargetHeadingError) < MaxAngular
  /\ TargetDistSq < ArrivalTolSq
  /\ published # << >>

\* C7: after a tick on a target whose heading error is at most 0.2 rad,
\* the published command is min(1.0, distance) with the capped heading
\* correction when the distance exceeds 0.1, and the zero twist otherwise.
C7_AlignedSteering ==
  (lastOp.op = "tick" /\ OnTarget /\ Abs(TargetHeadingError) <= AngleTol) =>
     IF TargetDistSq > ArrivalTolSq
       THEN published = << [lin |-> Min(MaxLinear, Sqrt(TargetDistSq)),
                            ang |-> Sign(TargetHeadingError) *
                                    Min(Abs(TargetHeadingError), MaxAngular)] >>
       ELSE published = << [lin |-> 0, ang |-> 0] >>

\* A tick advanced at the capped linear velocity on an aligned target
\* farther than 1.0.
C7_Witness ==
  /\ lastOp.op = "tick"
  /\ OnTarget
  /\ Abs(TargetHeadingError) <= AngleTol
  /\ TargetDistSq > MaxLinear * MaxLinear
  /\ published = << [lin |-> MaxLinear, ang |-> TargetHeadingError] >>

\* C8: a mission record exists only with at least one waypoint left to
\* reach (cursor < waypoints.length).
C8_ActiveIffWaypointsRemain ==
  Running => Len(Mission.points) >= 1

\* C9: a startMission whose points array is empty changes neither the
\* mission record nor the interval handle nor the armed timers.
C9_EmptyStartRejected ==
  [][ (lastOp'.op = "startMission" /\ lastOp'.arg = "empty") =>
        UNCHANGED MissionState ]_vars

\* C10: a malformed command (null payload, points that is no array,
\* non-numeric velocity) neither escapes its handler as an uncaught error
\* nor changes the mission state.
C10_MalformedRejected ==
  [][ ( \/ lastOp'.op = "startMission" /\ lastOp'.arg \in {"null", "notArray"}
        \/ lastOp'.op = "turtleControl" /\ lastOp'.arg \in {"null", "nonNumeric"} ) =>
        (~crashed' /\ UNCHANGED MissionState) ]_vars

\* C11: a stopMission received while there is no mission raises no error,
\* publishes nothing but the zero twist, leaves no mission, arms and disarms
\* no interval and only drops a stale handle; and a stopMission that follows
\* a stopMission changes nothing the first one left.
C11_IdempotentStop ==
  [][ /\ (lastOp'.op = "stopMission" /\ ~Running) =>
           /\ ~crashed'
           /\ \A i \in DOMAIN published' : published'[i] = ZeroTwist
           /\ ~Running'
           /\ timers' = timers
           /\ missionInterval' = NoTimer
      /\ (lastOp.op = "stopMission" /\ lastOp'.op = "stopMission") =>
           UNCHANGED << rosPc, isROSInitialized, turtleVelPub, currentMission,
                        missionInterval, timers, clients, crashed, published, emitted >>
    ]_vars

\* The stopMission that ran last found no mission and published the zero
\* twist.
C11_Witness ==
  /\ lastOp.op = "stopMission"
  /\ lastOp.n = -1
  /\ published = << ZeroTwist >>
  /\ ~Running

\* C12: a disconnect processed while a mission is running leaves no mission
\* and no handle, disarms the interval the mission held and publishes the
\* zero twist, however many waypoints were left, whichever socket leaves and
\* whoever else stays connected.
C12_DisconnectCleanup ==
  [][ (lastOp'.op = "disconnect" /\ Running) =>
         /\ ~Running'
         /\ missionInterval' = NoTimer
         /\ missionInterval \notin timers'
         /\ published' = << ZeroTwist >>
         /\ ~crashed'
    ]_vars

\* The disconnect that ran last ended a mission with waypoints left while
\* another socket stayed connected.
C12_Witness ==
  /\ lastOp.op = "disconnect"
  /\ lastOp.n >= 1
  /\ clients # {}
  /\ ~Running
  /\ published = << ZeroTwist >>

\* C13: the step that accepts a startMission emits missionStarted, the
\* stopMission or disconnect that ends a running mission emits
\* missionStopped, and the pose callback that completes one emits
\* missionComplete.
C13_LifecycleBroadcast ==
  [][ LET has(e) == \E i \in DOMAIN emitted' : emitted'[i] = e
      IN  /\ (lastOp'.op = "startMission" /\ Running' /\ MissionState' # MissionState) =>
                has("missionStarted")
          /\ (lastOp'.op \in {"stopMission", "disconnect"} /\ Running) =>
                has("missionStopped")
          /\ (lastOp'.op = "pose" /\ Running /\ ~Running') =>
                has("missionComplete")
    ]_vars

\* C14: a socket that connects while a mission is running is not the one
\* that started it (the starter is still connected, since any disconnect
\* ends the mission); its connection leaves the mission record, the handle
\* and the armed intervals as they were and publishes nothing.
C14_SessionIsolation ==
  [][ (lastOp'.op = "connect" /\ Running) =>
         /\ UNCHANGED MissionState
         /\ published' = << >>
    ]_vars

\* C19: every twist published by an interval firing has a linear velocity
\* in [0, 1.0] and an angular velocity in [-1.0, 1.0].
C19_CommandLimits ==
  lastOp.op = "tick" =>
    \A i \in DOMAIN published :
      /\ 0 <= published[i].lin /\ published[i].lin <= MaxLinear
      /\ -MaxAngular <= published[i].ang /\ published[i].ang <= MaxAngular

\* The interval firing that ran last published a command at the angular
\* limit; the raw heading error was beyond it.
C19_Witness ==
  /\ lastOp.op = "tick"
  /\ OnTarget
  /\ Abs(TargetHeadingError) > MaxAngular
  /\ published = << Twist(0, Sign(TargetHeadingError) * MaxAngular) >>

(***************************************************************************)
(* Properties of the client store.                                         *)
(***************************************************************************)
InArena(x, y) == -ArenaMax <= x /\ x <= ArenaMax /\ -ArenaMax <= y /\ y <= ArenaMax

\* C15: a startMission the store sends for a path with a start and an end
\* station carries the path's waypoints in recorded order when the selected
\* station is the path's first station, and the same waypoints reversed
\* when it is the path's last station.
C15_DirectionReversal ==
  [][ \A k \in SentNow("startMission") :
        LET path == paths[FindPath(selectedPathId)]
            waypoints == PathWaypoints(path)
            n == Len(path.stations)
        IN  n >= 2 =>
              /\ selectedStation = path.stations[1].id => sent'[k].data = waypoints
              /\ selectedStation = path.stations[n].id => sent'[k].data = Reverse(waypoints)
    ]_storeVars

\* C16: the pose the client stores, which is the pose the backend
\* broadcast or the store set itself, lies in the arena [-10, 10]^2.
C16_ArenaClamp == InArena(turtlePose.x, turtlePose.y)

\* C17: a step that sends a teleport request leaves the turtle at the
\* requested x, y, clamped to the arena, with the requested theta.
C17_TeleportSetsPose ==
  [][ \A k \in SentNow("teleportTurtle") :
        LET want == clampTurtlePoint(<< sent'[k].data.x, sent'[k].data.y, 0 >>)
        IN  simPose' = [x |-> want[1], y |-> want[2], theta |-> sent'[k].data.theta]
    ]_storeVars

\* C18: the step that delivers a failed save or a failed listing shows the
\* failure toast, sends nothing to the backend and leaves the pose of the
\* client, the pose of the turtle and the mission fields as they were.
C18_PersistenceDecoupled ==
  [][ replied' \in {"saveFailed", "listFailed"} =>
        /\ toast' = IF replied' = "saveFailed" THEN "Failed to save path"
                                               ELSE "Failed to fetch saved paths"
        /\ sent' = << >>
        /\ UNCHANGED << turtlePose, simPose, isMissionRunning, missionPath >>
    ]_storeVars

\* A save failed while the mission on the path just recorded was running.
C18_Witness ==
  /\ replied = "saveFailed"
  /\ isMissionRunning
  /\ missionPath # Null
  /\ toast = "Failed to save path"

\* C20: every path named in this page load has at least two stations, the
\* first with the id start and the last with the id end.
C20_SavedPathStations ==
  \A i \in DOMAIN paths :
    paths[i].id[1] = "local" =>
      /\ Len(paths[i].stations) >= 2
      /\ paths[i].stations[1].id = StartId
      /\ paths[i].stations[Len(paths[i].stations)].id = EndId

\* The notifications with which startMission of the store refuses.
StartRefusals == { "Please select a path!", "Select a station!",
                   "Invalid path or no connection!", "Invalid station selected!" }

\* C21: a step of the client that sends startMission or sets
\* isMissionRunning does both, and is taken with a selected path that is in
\* the list, a selected station that is one of that path's stations and a
\* socket; a step that shows one of startMission's refusals sends nothing
\* and changes nothing but the notification.
C21_StartGuards ==
  [][ LET selected == { i \in DOMAIN paths : paths[i].id = selectedPathId }
          ready == /\ selectedPathId # Null
                   /\ selectedStation # Null
                   /\ socket
                   /\ \E i \in selected :
                        /\ \A j \in selected : i <= j
                        /\ \E k \in DOMAIN paths[i].stations :
                             paths[i].stations[k].id = selectedStation
          starts == SentNow("startMission") # {} \/ (~isMissionRunning /\ isMissionRunning')
      IN  /\ starts => /\ ready
                       /\ isMissionRunning'
                       /\ SentNow("startMission") # {}
          /\ (toast' \in StartRefusals /\ toast' # toast) =>
                /\ ~ready
                /\ sent' = << >>
                /\ UNCHANGED << turtlePose, currentPath, isMapping, stationsOnPath,
                                pendingPath, paths, selectedPathId, selectedStation,
                                isMissionRunning, missionPath, socket, connected,
                                showNameModal, simPose >>
    ]_storeVars

\* A start was refused for a station that is none of the selected path's,
\* with a path of the list selected and a socket.
C21_Witness ==
  /\ toast = "Invalid station selected!"
  /\ socket
  /\ selectedStation # Null
  /\ \E i \in DOMAIN paths : paths[i].id = selectedPathId
  /\ ~isMissionRunning
  /\ sent = << >>

\* C22: a toast is never shown longer than 3 seconds after the showToast
\* call that set it last; a step that changes a shown toast either shows
\* a newer one, whose 3 seconds start anew, or clears it exactly 3 seconds
\* after that call; and once the 3 seconds are over the clearing callback
\* of the handle showToast kept is due.
C22_ToastLifetime ==
  [][ /\ toast' # NoText => toastAge' <= ToastDelay
      /\ (toast # NoText /\ toast' # toast) =>
            \/ toast' # NoText /\ toastAge' = 0
            \/ toast' = NoText /\ toastAge = ToastDelay
      /\ (toast' # NoText /\ toastAge' = ToastDelay) =>
            << toastTimeout', 0 >> \in timeouts'
    ]_storeVars

\* The toast of a disconnect, which replaced or followed the toast of the
\* connect, has been shown for 3 seconds and its callback is due.
C22_Witness ==
  /\ toast = "Disconnected from ROS"
  /\ toastAge = ToastDelay
  /\ timeouts = { << toastTimeout, 0 >> }

\* C23: the step in which the client's socket connects leaves the client
\* with the pose (0, 0, 0) and the turtle, whose pose is the one the
\* backend pushes to the session next, at (0, 0, 0) as well.
C23_ConnectResetsPose ==
  [][ (~connected /\ connected') => (turtlePose' = Origin /\ simPose' = Origin)
    ]_storeVars

\* C24: a mission record exists if and only if the interval whose handle
\* missionInterval holds is armed.
C24_TimerMissionConsistency ==
  Running <=> (missionInterval # NoTimer /\ missionInterval \in timers)

\* C25: at most one interval is armed.
C25_SingleTimer == Cardinality(timers) <= 1

\* C26: an interval firing that directly follows a pose message received
\* by a running mission, and finds that pose not arrived at the target (the
\* distance is not below 0.1), publishes a twist with a non-zero linear or
\* angular velocity.
C26_NoDeadZone ==
  [][ ( /\ lastOp.op = "pose" /\ lastOp.n >= 1
        /\ lastOp'.op = "tick"
        /\ OnTarget /\ TargetDistSq >= ArrivalTolSq ) =>
        \E i \in DOMAIN published' : published'[i].lin # 0 \/ published'[i].ang # 0
    ]_vars

\* C27: the interval firing that directly follows an accepted startMission,
\* before any pose message has reached the new mission record, publishes
\* no steering command.
C27_NoPlaceholderSteering ==
  [][ ( /\ lastOp.op = "startMission" /\ lastOp.arg = "array"
        /\ Running
        /\ lastOp'.op = "tick" ) => published' = << >>
    ]_vars

\* The elements of points at the indices in K, in their order.
RECURSIVE SubSeqAt(_, _, _)
SubSeqAt(points, K, i) ==
  IF i > Len(points) THEN << >>
  ELSE (IF i \in K THEN << points[i] >> ELSE << >>) \o SubSeqAt(points, K, i + 1)

\* C29: the result of filterPathPoints is the argument restricted to a set
\* K of its indices, in order; K holds the first index unless the argument
\* is empty; two kept points with no kept point between them are at least
\* 0.2 apart; and every dropped point is closer than 0.2 to the last kept
\* point before it.
C29_FilterSubsequence ==
  pendingPath # Null =>
    LET points == currentPath
        result == pendingPath[1]
        apart(i, j) == DistSq(points[i][1] - points[j][1],
                              points[i][2] - points[j][2]) >= MinDistSq
    IN  \E K \in SUBSET (1..Len(points)) :
          /\ result = SubSeqAt(points, K, 1)
          /\ points # << >> => 1 \in K
          /\ \A i, j \in K :
               (i < j /\ ~\E k \in K : i < k /\ k < j) => apart(i, j)
          /\ \A j \in (1..Len(points)) \ K :
               \E i \in K : /\ i < j
                            /\ \A k \in K : k < j => k <= i
                            /\ ~apart(i, j)

\* Of four points the second was dropped as closer than 0.2, the third
\* kept at exactly 0.2 and the fourth kept.
C29_Witness ==
  /\ pendingPath # Null
  /\ Len(currentPath) = 4
  /\ pendingPath[1] = << currentPath[1], currentPath[3], currentPath[4] >>
  /\ DistSq(currentPath[3][1] - currentPath[1][1],
            currentPath[3][2] - currentPath[1][2]) = MinDistSq

\* C30: the stopMapping that ends a recording of at least 2 points leaves a
\* pending path whose last point is the last recorded point and the
\* position of the end station.
C30_PathEndsAtEnd ==
  [][ ( /\ Len(currentPath) >= 2
        /\ currentPath' = << >>
        /\ pendingPath' # Null
        /\ ~isMapping' ) =>
        LET saved == pendingPath'[1]
            last == saved[Len(saved)]
        IN  /\ last = currentPath[Len(currentPath)]
            /\ last = stationsOnPath'[Len(stationsOnPath')].position
    ]_storeVars

\* C28: whenever the backend has no mission and the browser is connected,
\* the browser's isMissionRunning is false then or becomes false later.
C28_EventualAgreement ==
  (~Running /\ connected) ~> ~isMissionRunning

=============================================================================
